---- MODULE Spec2Model ----
(***************************************************************************)
(* The post ordering of the blog build: the "sortedPosts" collection       *)
(* callback of eleventy.config.js and the pagination block of              *)
(* src/posts.11tydata.js, with Array.prototype.sort modelled as the        *)
(* engine runs it on arrays shorter than 64 elements (one run found by     *)
(* CountAndMakeRun, the rest placed by binary insertion).                  *)
(***************************************************************************)
EXTENDS Integers, Sequences, FiniteSets

\* ------------------------------------------------------------------ bounds
MaxItems == 3      \* content files discovered by one build
MaxIndex == 3      \* numeric index values are 1..MaxIndex
MaxEvals == 2      \* evaluations of each callback within one build
MaxBuilds == 2     \* builds run one after the other

\* ------------------------------------------------------- values of the data
\* JavaScript values: a number n, NaN, undefined (a front-matter attribute
\* that is missing) and the abrupt completion of an expression.
Number(n) == [t |-> "number", v |-> n]
Undefined == [t |-> "undefined", v |-> 0]
NaN == [t |-> "NaN", v |-> 0]
TypeError == [t |-> "TypeError", v |-> 0]

IsNumber(x) == x.t = "number"

IndexValues == {Number(n) : n \in 1..MaxIndex} \cup {Undefined}
TagSets == {{"post", "rust"}, {"rust"}}

\* One discovered content file: item.data is its front matter.
ContentItem == [data : [id : 1..MaxItems, index : IndexValues, tags : TagSets]]

\* What content file k can be: a post, with or without an index, or a page
\* that is no post, which (like src/resume.md) carries no index.
Files(k) ==
  {i \in ContentItem :
     i.data.id = k /\ ("post" \notin i.data.tags => i.data.index = Undefined)}

\* The item arrays content discovery can hand to the build: item k of the
\* array is content file k.
Discovered ==
  UNION {{s \in [1..n -> ContentItem] : \A k \in 1..n : s[k] \in Files(k)} : n \in 0..MaxItems}

\* The content of this repository: src/content/Type Assertions in Rust.md
\* (id 1) and the "Clone vs Copy" post (id 2); neither front matter sets index.
RepoContent ==
  << [data |-> [id |-> 1, index |-> Undefined, tags |-> {"post", "rust"}]],
     [data |-> [id |-> 2, index |-> Undefined, tags |-> {"post", "rust"}]] >>

\* ------------------------------------------------------ Array.prototype.sort
\* The subtraction that rejects a missing operand.
JsSub_strict(x, y) ==
  IF x = Undefined \/ y = Undefined THEN TypeError
  ELSE IF x = NaN \/ y = NaN THEN NaN
  ELSE Number(x.v - y.v)

\* x - y on front-matter values: ToNumber(undefined) is NaN, nothing is raised.
JsSub(x, y) ==
  IF x = Undefined \/ y = Undefined \/ x = NaN \/ y = NaN THEN NaN
  ELSE Number(x.v - y.v)

\* The listing comparator with its operands exchanged.
sortedPostsComparator_ascending ==
  [a \in ContentItem, b \in ContentItem |-> JsSub(a.data.index, b.data.index)]

\* (a, b) => b.data.index - a.data.index
sortedPostsComparator ==
  [a \in ContentItem, b \in ContentItem |-> JsSub(b.data.index, a.data.index)]

\* The pagination comparator with its operands exchanged.
beforeComparator_descending ==
  [a \in ContentItem, b \in ContentItem |-> JsSub(b.data.index, a.data.index)]

\* (a, b) => a.data.index - b.data.index
beforeComparator ==
  [a \in ContentItem, b \in ContentItem |-> JsSub(a.data.index, b.data.index)]

\* The comparator's result as the sort uses it: NaN counts as 0.
SortCompare(comparefn, x, y) ==
  LET v == comparefn[x, y] IN IF v = NaN THEN 0 ELSE v.v

\* The length of the run that starts the array; idx is the (1-based) position
\* of the element compared with its predecessor.
RECURSIVE CountRun(_, _, _, _, _)
CountRun(comparefn, w, idx, isDescending, runLength) ==
  IF idx > Len(w) THEN runLength
  ELSE LET order == SortCompare(comparefn, w[idx], w[idx - 1]) IN
       IF (isDescending /\ order >= 0) \/ (~isDescending /\ order < 0)
       THEN runLength
       ELSE CountRun(comparefn, w, idx + 1, isDescending, runLength + 1)

\* The reversal that swaps without a temporary: the upper half is copied
\* down and then copied back.
ReverseRange_noTemp(w, runLength) ==
  [i \in 1..Len(w) |-> IF 2 * i <= runLength THEN w[runLength + 1 - i] ELSE w[i]]

\* The elements of the run w[1..runLength] in reverse order, the rest in place.
ReverseRange(w, runLength) ==
  [i \in 1..Len(w) |-> IF i <= runLength THEN w[runLength + 1 - i] ELSE w[i]]

\* The first run, reversed also when its elements only compare equal.
CountAndMakeRun_reverseEqual(comparefn, w) ==
  IF Len(w) = 1 THEN [array |-> w, runLength |-> 1]
  ELSE LET isDescending == SortCompare(comparefn, w[2], w[1]) <= 0
           runLength == CountRun(comparefn, w, 3, isDescending, 2)
       IN [array |-> IF isDescending THEN ReverseRange(w, runLength) ELSE w,
           runLength |-> runLength]

\* The first run, reversed when it is strictly descending.
CountAndMakeRun(comparefn, w) ==
  IF Len(w) = 1 THEN [array |-> w, runLength |-> 1]
  ELSE LET isDescending == SortCompare(comparefn, w[2], w[1]) < 0
           runLength == CountRun(comparefn, w, 3, isDescending, 2)
       IN [array |-> IF isDescending THEN ReverseRange(w, runLength) ELSE w,
           runLength |-> runLength]

\* The insertion point of pivot in w[left..right-1] (0-based, right excluded):
\* after every element the pivot is not smaller than.
RECURSIVE BinarySearch(_, _, _, _, _)
BinarySearch(comparefn, w, pivot, left, right) ==
  IF left >= right THEN left
  ELSE LET mid == left + ((right - left) \div 2)
           order == SortCompare(comparefn, pivot, w[mid + 1])
       IN IF order < 0
          THEN BinarySearch(comparefn, w, pivot, left, mid)
          ELSE BinarySearch(comparefn, w, pivot, mid + 1, right)

\* The insertion without the shift: the pivot overwrites the element at left.
InsertAt_overwrite(w, start, left) ==
  [i \in 1..Len(w) |-> IF i - 1 = left THEN w[start + 1] ELSE w[i]]

\* Moves the element at 0-based position start to position left, shifting
\* the elements in between one place up.
InsertAt(w, start, left) ==
  [i \in 1..Len(w) |->
     IF i - 1 < left THEN w[i]
     ELSE IF i - 1 = left THEN w[start + 1]
     ELSE IF i - 1 <= start THEN w[i - 1]
     ELSE w[i]]

RECURSIVE BinaryInsertionSort(_, _, _)
BinaryInsertionSort(comparefn, w, start) ==
  IF start >= Len(w) THEN w
  ELSE LET left == BinarySearch(comparefn, w, w[start + 1], 0, start)
       IN BinaryInsertionSort(comparefn, InsertAt(w, start, left), start + 1)

\* The sort that stops after the first run.
ArraySort_firstRunOnly(arr, comparefn) ==
  IF Len(arr) < 2 THEN arr ELSE CountAndMakeRun(comparefn, arr).array

\* arr.sort(comparefn): the new contents of arr (the array is sorted in place
\* and returned).
ArraySort(arr, comparefn) ==
  IF Len(arr) < 2 THEN arr
  ELSE LET run == CountAndMakeRun(comparefn, arr)
       IN BinaryInsertionSort(comparefn, run.array, run.runLength)

\* A comparator call of the sort completes abruptly.
SortThrows(arr, comparefn) ==
  \E i, j \in 1..Len(arr) : i # j /\ comparefn[arr[i], arr[j]] = TypeError

\* --------------------------------------------------------- the host's API
\* collectionsApi.getFilteredByTag(tagName): a new array of the items that
\* carry the tag, in the collection API's order.
getFilteredByTag(items, tagName) ==
  SelectSeq(items, LAMBDA item : tagName \in item.data.tags)

\* pagination.size
size == 1

\* The slices taken one item too long.
chunk_long(array, n) ==
  [k \in 1..((Len(array) + n) \div (n + 1)) |->
     SubSeq(array, (k - 1) * (n + 1) + 1,
            IF k * (n + 1) < Len(array) THEN k * (n + 1) ELSE Len(array))]

\* The pages of a pagination: consecutive slices of `size` items; an empty
\* array gives no page.
chunk(array, n) ==
  [k \in 1..((Len(array) + n - 1) \div n) |->
     SubSeq(array, (k - 1) * n + 1, IF k * n < Len(array) THEN k * n ELSE Len(array))]

\* ----------------------------------------------------------------- the build
VARIABLES
  all,          \* the collection API's items, in its order
  post,         \* the array "collections.post" resolves to
  sortedPosts,  \* the "sortedPosts" collection
  sorterEvals,  \* evaluations of the sortedPosts callback so far
  items,        \* the array the before hook returned
  pages,        \* the pages of the pagination, each with its payload
  beforeEvals,  \* evaluations of the pagination so far
  renders,      \* the payloads of the rendering passes made, in order
  threw,        \* a callback raised an error
  listing,      \* the entries of the posts listing, as rendered
  build         \* the number of the build that is running

vars ==
  <<all, post, sortedPosts, sorterEvals, items, pages, beforeEvals, renders, threw,
    listing, build>>

Init ==
  /\ all \in Discovered
  /\ post = getFilteredByTag(all, "post")
  /\ sortedPosts = <<>>
  /\ sorterEvals = 0
  /\ items = <<>>
  /\ pages = <<>>
  /\ beforeEvals = 0
  /\ renders = <<>>
  /\ threw = FALSE
  /\ listing = <<>>
  /\ build = 1

\* The callback sorting the array "collections.post" resolves to, which is
\* also the array the before hook returned, once it has run.
SortedPostsCallback_sharedArray ==
  /\ ~threw
  /\ sorterEvals < MaxEvals
  /\ post' = ArraySort(post, sortedPostsComparator)
  /\ sortedPosts' = post'
  /\ items' = IF beforeEvals > 0 THEN post' ELSE items
  /\ sorterEvals' = sorterEvals + 1
  /\ UNCHANGED <<all, pages, beforeEvals, renders, threw, listing, build>>

\* eleventyConfig.addCollection("sortedPosts", function (collectionsApi) {...})
SortedPostsCallback ==
  /\ ~threw
  /\ sorterEvals < MaxEvals
  /\ LET tagged == getFilteredByTag(all, "post") IN
       IF SortThrows(tagged, sortedPostsComparator)
       THEN threw' = TRUE /\ UNCHANGED sortedPosts
       ELSE sortedPosts' = ArraySort(tagged, sortedPostsComparator) /\ UNCHANGED threw
  /\ sorterEvals' = sorterEvals + 1
  /\ UNCHANGED <<all, post, items, pages, beforeEvals, renders, listing, build>>

\* pagination: { data: "collections.post", size: 1, before: ... }: the hook
\* sorts the array it is handed and returns it; its result is cut into pages.
Paginate ==
  /\ ~threw
  /\ beforeEvals < MaxEvals
  /\ IF SortThrows(post, beforeComparator)
     THEN threw' = TRUE /\ UNCHANGED <<post, items, pages>>
     ELSE /\ post' = ArraySort(post, beforeComparator)
          /\ items' = post'
          /\ pages' = chunk(items', size)
          /\ UNCHANGED threw
  /\ renders' = <<>>
  /\ beforeEvals' = beforeEvals + 1
  /\ UNCHANGED <<all, sortedPosts, sorterEvals, listing, build>>

\* One rendering pass: the next page of the pagination is rendered with its
\* payload.
RenderPage ==
  /\ ~threw
  /\ beforeEvals > 0
  /\ Len(renders) < Len(pages)
  /\ renders' = Append(renders, pages[Len(renders) + 1])
  /\ UNCHANGED <<all, post, sortedPosts, sorterEvals, items, pages, beforeEvals, threw,
               listing, build>>

\* The numbering of a plain <ol>: the k-th entry carries k.
OlReversed_plain(entries) ==
  [k \in 1..Len(entries) |-> [ordinal |-> k, href |-> entries[k].href]]

\* The numbering of <ol reversed>: the k-th of N entries carries N - k + 1.
OlReversed(entries) ==
  [k \in 1..Len(entries) |->
     [ordinal |-> Len(entries) - k + 1, href |-> entries[k].href]]

\* {% for post in collections.sortedPosts %} <li><a href="posts/{{ post.data.id }}/">
ListEntries(posts) ==
  [k \in 1..Len(posts) |-> [href |-> <<"posts", posts[k].data.id>>]]

\* The posts listing is rendered from the sortedPosts collection.
RenderListing ==
  /\ ~threw
  /\ sorterEvals > 0
  /\ listing = <<>>
  /\ listing' = OlReversed(ListEntries(sortedPosts))
  /\ UNCHANGED <<all, post, sortedPosts, sorterEvals, items, pages, beforeEvals,
                 renders, threw, build>>

Next == SortedPostsCallback \/ Paginate \/ RenderPage \/ RenderListing

Spec == Init /\ [][Next]_vars

\* ------------------------------------------------------- successive builds
\* The build has written its whole output.
BuildFinished ==
  /\ ~threw
  /\ sorterEvals > 0
  /\ beforeEvals > 0
  /\ Len(renders) = Len(pages)
  /\ Len(listing) = Len(sortedPosts)

\* The content after one change pushed to the repository: a front matter
\* edited, a content file added, the last one removed, or nothing changed.
Rediscovered(content) ==
  {content}
    \cup UNION {{[content EXCEPT ![k] = item] : item \in Files(k)} :
                k \in 1..Len(content)}
    \cup (IF Len(content) < MaxItems
          THEN {Append(content, item) : item \in Files(Len(content) + 1)}
          ELSE {})
    \cup (IF Len(content) > 0 THEN {SubSeq(content, 1, Len(content) - 1)} ELSE {})

\* The next build keeps what the build before it left behind.
NewBuild_keepsCollections ==
  /\ BuildFinished
  /\ build < MaxBuilds
  /\ all' \in Rediscovered(all)
  /\ build' = build + 1
  /\ sorterEvals' = 0
  /\ beforeEvals' = 0
  /\ renders' = <<>>
  /\ listing' = <<>>
  /\ UNCHANGED <<post, sortedPosts, items, pages, threw>>

\* npx eleventy on the next push: a new process discovers the content and
\* builds from nothing.
NewBuild ==
  /\ BuildFinished
  /\ build < MaxBuilds
  /\ all' \in Rediscovered(all)
  /\ build' = build + 1
  /\ post' = getFilteredByTag(all', "post")
  /\ sortedPosts' = <<>>
  /\ sorterEvals' = 0
  /\ items' = <<>>
  /\ pages' = <<>>
  /\ beforeEvals' = 0
  /\ renders' = <<>>
  /\ listing' = <<>>
  /\ UNCHANGED threw

NextBuilds == Next \/ NewBuild

BuildsSpec == Init /\ [][NextBuilds]_vars

\* ------------------------------------------------------------- vocabulary
\* The tagged input set S of a build.
S == getFilteredByTag(all, "post")

Indexes(seq) == [k \in 1..Len(seq) |-> seq[k].data.index]
Numbers(seq) == [k \in 1..Len(seq) |-> Number(seq[k])]

AllNumeric(seq) == \A k \in 1..Len(seq) : IsNumber(seq[k].data.index)
SomeMissing(seq) == \E k \in 1..Len(seq) : seq[k].data.index = Undefined
DistinctIndexes(seq) ==
  \A j, k \in 1..Len(seq) : j # k => seq[j].data.index # seq[k].data.index
HasTie(seq) ==
  \E j, k \in 1..Len(seq) : j # k /\ seq[j].data.index = seq[k].data.index

Occurrences(seq, item) == Cardinality({k \in 1..Len(seq) : seq[k] = item})

\* out holds every item of in exactly once and nothing else.
IsPermutation(out, in) ==
  /\ Len(out) = Len(in)
  /\ \A k \in 1..Len(in) : Occurrences(out, in[k]) = 1

StrictlyDescending(seq) ==
  \A k \in 1..(Len(seq) - 1) : seq[k].data.index.v > seq[k + 1].data.index.v
Descending(seq) ==
  \A k \in 1..(Len(seq) - 1) : seq[k].data.index.v >= seq[k + 1].data.index.v
StrictlyAscending(seq) ==
  \A k \in 1..(Len(seq) - 1) : seq[k].data.index.v < seq[k + 1].data.index.v
Ascending(seq) ==
  \A k \in 1..(Len(seq) - 1) : seq[k].data.index.v <= seq[k + 1].data.index.v

\* The items of the pages, in page order (every page holds `size` items).
PageItems == [k \in 1..Len(pages) |-> pages[k][1]]

\* ------------------------------------------------------------------ claims
\* C1: with numeric, pairwise distinct index values the sortedPosts collection
\* is a permutation of the tagged items in strictly descending index order.
C1_SorterStrictlyDescending ==
  (sorterEvals > 0 /\ AllNumeric(S) /\ DistinctIndexes(S))
    => (IsPermutation(sortedPosts, S) /\ StrictlyDescending(sortedPosts))

C1_Witness ==
  /\ sorterEvals > 0
  /\ Indexes(S) = Numbers(<<1, 3, 2>>)
  /\ Indexes(sortedPosts) = Numbers(<<3, 2, 1>>)

\* C2 as stated: for every tagged set with numeric index values the pages are
\* in strictly ascending index order and there is one page per item.
C2_Original ==
  (beforeEvals > 0 /\ AllNumeric(S))
    => (StrictlyAscending(PageItems) /\ Len(pages) = Len(S))

\* C2, amended: with numeric index values the pages are in ascending index
\* order (x.index <= y.index for adjacent pages), strictly ascending when the
\* index values are pairwise distinct, and there is one page per item.
C2_PagesAscending ==
  (beforeEvals > 0 /\ AllNumeric(S))
    => /\ Ascending(PageItems)
       /\ DistinctIndexes(S) => StrictlyAscending(PageItems)
       /\ Len(pages) = Len(S)

C2_Witness ==
  /\ beforeEvals > 0
  /\ Indexes(S) = Numbers(<<1, 3, 2>>)
  /\ Indexes(PageItems) = Numbers(<<1, 2, 3>>)

\* C3: with numeric index values that may repeat, every adjacent pair (x, y)
\* of the sortedPosts collection has x.index >= y.index.
C3_SorterDescendingWithTies ==
  (sorterEvals > 0 /\ AllNumeric(S)) => Descending(sortedPosts)

C3_Witness ==
  /\ sorterEvals > 0
  /\ AllNumeric(S)
  /\ Indexes(S) = Numbers(<<1, 2, 1>>)
  /\ Indexes(sortedPosts) = Numbers(<<2, 1, 1>>)

\* C4: every tagged item, also one of several with the same index, is exactly
\* once in the sortedPosts collection and exactly once among the pages, and
\* neither holds anything else.
C4_NoDuplicationNoLoss ==
  AllNumeric(S)
    => /\ sorterEvals > 0 => IsPermutation(sortedPosts, S)
       /\ beforeEvals > 0 => IsPermutation(PageItems, S)

C4_Witness ==
  /\ sorterEvals > 0
  /\ beforeEvals > 0
  /\ AllNumeric(S)
  /\ HasTie(S)
  /\ Len(S) = MaxItems
  /\ Indexes(S) # Indexes(sortedPosts)
  /\ Indexes(S) # Indexes(PageItems)

\* C5: every page carries exactly one item, and once every page is rendered
\* each tagged item has been the payload of exactly one rendering pass, for
\* every number of tagged items (none and one included).
C5_OneItemPerPage ==
  beforeEvals > 0
    => /\ \A k \in 1..Len(pages) : Len(pages[k]) = 1
       /\ Len(pages) = Len(S)
       /\ Len(renders) = Len(pages)
            => \A i \in 1..Len(S) :
                 Cardinality({k \in 1..Len(renders) : renders[k] = <<S[i]>>}) = 1

C5_Witness ==
  /\ beforeEvals > 0
  /\ Len(S) = 2
  /\ Len(renders) = 2
  /\ renders = pages

\* C6 as stated: the before hook leaves the array it runs on, the one
\* "collections.post" resolves to, in the order it had.
C6_BackingArrayKeepsOrder ==
  [][beforeEvals' # beforeEvals => post' = post]_vars

\* C7: an evaluation of the sortedPosts callback changes nothing but the
\* sortedPosts collection (the collection API's items, the "post" collection
\* and the pagination stay as they were), and its result is the descending
\* sort of the tagged items whatever else the build has done.
C7_SorterHasNoSideEffects ==
  /\ [][sorterEvals' # sorterEvals
          => UNCHANGED <<all, post, items, pages, renders>>]_vars
  /\ [](sorterEvals > 0 => sortedPosts = ArraySort(S, sortedPostsComparator))

C7_Witness ==
  /\ sorterEvals > 0
  /\ beforeEvals = 0
  /\ Len(S) = MaxItems
  /\ sortedPosts # S
  /\ post = S

\* C8: with numeric index values (equal ones included) sorting again changes
\* nothing: the sortedPosts collection and the paginated items are what one
\* sort of the tagged items gives, however often each callback was evaluated,
\* and each is a fixed point of its sort.
C8_Idempotent ==
  AllNumeric(S)
    => /\ sorterEvals > 0
            => /\ sortedPosts = ArraySort(S, sortedPostsComparator)
               /\ ArraySort(sortedPosts, sortedPostsComparator) = sortedPosts
       /\ beforeEvals > 0
            => /\ items = ArraySort(S, beforeComparator)
               /\ ArraySort(items, beforeComparator) = items

C8_Witness ==
  /\ sorterEvals = 2
  /\ beforeEvals = 2
  /\ AllNumeric(S)
  /\ HasTie(S)
  /\ sortedPosts # S
  /\ items # S

\* C9: when a tagged item has no index, neither callback raises an error,
\* each produces its whole output, and evaluating a callback again leaves
\* every item at the position the earlier evaluation gave it.
C9_MissingIndexCompletes ==
  /\ [](SomeMissing(S)
          => /\ ~threw
             /\ sorterEvals > 0 => Len(sortedPosts) = Len(S)
             /\ beforeEvals > 0 => (Len(items) = Len(S) /\ Len(pages) = Len(S)))
  /\ [][(SomeMissing(S) /\ sorterEvals > 0 /\ sorterEvals' # sorterEvals)
          => sortedPosts' = sortedPosts]_vars
  /\ [][(SomeMissing(S) /\ beforeEvals > 0 /\ beforeEvals' # beforeEvals)
          => (items' = items /\ pages' = pages)]_vars

C9_Witness ==
  /\ SomeMissing(S)
  /\ ~AllNumeric(sortedPosts)
  /\ Len(S) = MaxItems
  /\ sorterEvals = 2
  /\ beforeEvals = 2
  /\ ~threw
  /\ sortedPosts # S
  /\ Len(pages) = MaxItems

\* C10 as stated: every item of this repository's content that is tagged
\* "post" has a numeric index in its data.
C10_RepoPostsDefineIndex ==
  all = RepoContent
    => \A k \in 1..Len(all) :
         "post" \in all[k].data.tags => IsNumber(all[k].data.index)

\* C11: in a build that follows another, the sortedPosts collection and the
\* pages are those of a first build on the same content: the build starts
\* from nothing and each output is computed from the content of this build.
C11_NoStateAcrossBuilds ==
  build > 1
    => /\ sorterEvals = 0 => sortedPosts = <<>>
       /\ beforeEvals = 0 => (post = S /\ items = <<>> /\ pages = <<>>)
       /\ sorterEvals > 0 => sortedPosts = ArraySort(S, sortedPostsComparator)
       /\ beforeEvals > 0 => pages = chunk(ArraySort(S, beforeComparator), size)

C11_Witness ==
  /\ build = 2
  /\ BuildFinished
  /\ Len(S) = MaxItems
  /\ sortedPosts # S
  /\ PageItems # S

\* C12: the two callbacks do not depend on the order they run in: an
\* evaluation of the before hook leaves the sortedPosts collection and what
\* the sorter would compute next as they are, and an evaluation of the sorter
\* leaves the pages and what the hook would compute next as they are, for
\* every content (equal and missing index values included).
C12_OrderIndependent ==
  /\ [][beforeEvals' > beforeEvals
          => /\ sortedPosts' = sortedPosts
             /\ ArraySort(getFilteredByTag(all', "post"), sortedPostsComparator)
                  = ArraySort(getFilteredByTag(all, "post"), sortedPostsComparator)]_vars
  /\ [][sorterEvals' > sorterEvals
          => /\ pages' = pages
             /\ items' = items
             /\ ArraySort(post', beforeComparator)
                  = ArraySort(post, beforeComparator)]_vars

C12_Witness ==
  /\ sorterEvals > 0
  /\ beforeEvals > 0
  /\ Len(S) = MaxItems
  /\ SomeMissing(S)
  /\ post # S
  /\ sortedPosts # post

\* The items of seq, last first.
Reversed(seq) == [k \in 1..Len(seq) |-> seq[Len(seq) + 1 - k]]

\* C13: with numeric, pairwise distinct index values the sortedPosts
\* collection is the page sequence in reverse.
C13_SorterReversesPages ==
  (sorterEvals > 0 /\ beforeEvals > 0 /\ AllNumeric(S) /\ DistinctIndexes(S))
    => sortedPosts = Reversed(PageItems)

C13_Witness ==
  /\ sorterEvals > 0
  /\ beforeEvals > 0
  /\ Indexes(S) = Numbers(<<2, 3, 1>>)
  /\ Indexes(sortedPosts) = Numbers(<<3, 2, 1>>)
  /\ sortedPosts = Reversed(PageItems)

\* C13, second half: a reachable state with equal index values in which the
\* two sequences are not reverses of each other.
C13_TiesNotReversed ==
  /\ sorterEvals > 0
  /\ beforeEvals > 0
  /\ AllNumeric(S)
  /\ HasTie(S)
  /\ sortedPosts # Reversed(PageItems)

\* C14: the listing has one entry per post, the k-th of N entries linking to
\* posts/<id>/ of the k-th item of sortedPosts and carrying ordinal N - k + 1;
\* with numeric index values the first entry, numbered N, is a post with the
\* largest index and the last, numbered 1, one with the smallest.
C14_ListingReversedOrdinals ==
  (sorterEvals > 0 /\ Len(listing) > 0)
    => LET N == Len(S) IN
       /\ Len(listing) = N
       /\ \A k \in 1..N :
            /\ listing[k].ordinal = N - k + 1
            /\ listing[k].href = <<"posts", sortedPosts[k].data.id>>
       /\ \A i \in 1..N :
            Cardinality({k \in 1..N : listing[k].href = <<"posts", S[i].data.id>>}) = 1
       /\ AllNumeric(S)
            => /\ Descending(sortedPosts)
               /\ listing[1].ordinal = N
               /\ listing[N].ordinal = 1
               /\ \A i \in 1..N :
                    /\ sortedPosts[1].data.index.v >= S[i].data.index.v
                    /\ sortedPosts[N].data.index.v <= S[i].data.index.v

C14_Witness ==
  /\ Len(listing) = 3
  /\ Indexes(S) = Numbers(<<1, 3, 2>>)
  /\ listing[1] = [ordinal |-> 3, href |-> <<"posts", S[2].data.id>>]
  /\ listing[3] = [ordinal |-> 1, href |-> <<"posts", S[1].data.id>>]

\* C15: when tagged items have no numeric index, the sortedPosts collection
\* and the page sequence still hold every tagged item exactly once, and there
\* are as many pages as tagged items.
C15_PermutationWithMissingIndex ==
  SomeMissing(S)
    => /\ sorterEvals > 0 => IsPermutation(sortedPosts, S)
       /\ beforeEvals > 0 => (IsPermutation(PageItems, S) /\ Len(pages) = Len(S))

C15_Witness ==
  /\ SomeMissing(S)
  /\ ~AllNumeric(sortedPosts)
  /\ sorterEvals > 0
  /\ beforeEvals > 0
  /\ Len(pages) = MaxItems
  /\ sortedPosts # S
  /\ IsPermutation(PageItems, S)

====
